---------------------------- MODULE Spec2Model ----------------------------
(***************************************************************************)
(* Model of Project_Files/Backend/controllers/doctorController.js:         *)
(* doctorSignup, checkBookingAvailability and                              *)
(* changeAppointmentStatus over the Doctor, Appointment and User           *)
(* collections, with the moment.js calls of checkBookingAvailability       *)
(* (parsing with one or two formats, clone/add/subtract, isBefore,         *)
(* isAfter, format) modelled by what they compute.                         *)
(*                                                                         *)
(* A time text is a record [hh, mm, mer]: the two digit groups of the      *)
(* string and its meridiem word ("" when it has none).  hh = -1 stands for *)
(* a string with no digits and no meridiem letters ("xx").                 *)
(***************************************************************************)
EXTENDS Integers, Sequences, FiniteSets, TLC

VARIABLES doctors, appointments, users, pc, local, last, reply

vars == <<doctors, appointments, users, pc, local, last, reply>>

(* ------------------------------ bounds --------------------------------- *)

MaxDocs == 1
MaxAppts == 2
MaxRepeat == 2
MaxNotifs == 2
MaxSignups == 2

(* ------------------------------ texts ---------------------------------- *)

None == [none |-> TRUE]

Text(h, m, mer) == [hh |-> h, mm |-> m, mer |-> mer]

NoDigits == Text(-1, -1, "")

InvalidDate == [invalid |-> TRUE]

MinutesPerDay == 1440

BufferBefore == 30
BufferAfter == 15

(* moment#format("HH:mm") of a valid moment, minutes counted from today's  *)
(* midnight (negative: yesterday, 1440 and more: tomorrow).                *)
FormatHHmm(min) ==
    LET tod == min % MinutesPerDay
    IN  Text(tod \div 60, tod % 60, "")

(* moment#format("hh:mm A") *)
FormathhmmA(min) ==
    LET tod == min % MinutesPerDay
        h == tod \div 60
    IN  Text(IF h % 12 = 0 THEN 12 ELSE h % 12, tod % 60,
             IF h < 12 THEN "AM" ELSE "PM")

(* The characters of a text, as code units, for the database's string      *)
(* comparison.                                                             *)
Codes(t) ==
    IF t = InvalidDate
    THEN <<73, 110, 118, 97, 108, 105, 100, 32, 100, 97, 116, 101>>
    ELSE IF t.hh < 0
    THEN <<120, 120>>
    ELSE <<48 + (t.hh \div 10), 48 + (t.hh % 10), 58,
           48 + (t.mm \div 10), 48 + (t.mm % 10)>>
         \o (IF t.mer = "" THEN <<>>
             ELSE <<32, IF t.mer = "AM" THEN 65 ELSE 80, 77>>)

RECURSIVE LexLE(_, _)
LexLE(a, b) ==
    IF a = <<>> THEN TRUE
    ELSE IF b = <<>> THEN FALSE
    ELSE IF Head(a) < Head(b) THEN TRUE
    ELSE IF Head(a) > Head(b) THEN FALSE
    ELSE LexLE(Tail(a), Tail(b))

StrGte(a, b) == LexLE(Codes(b), Codes(a))
StrLte(a, b) == LexLE(Codes(a), Codes(b))

(* ------------------------------ moment --------------------------------- *)

Invalid == [valid |-> FALSE, min |-> 0]

meridiemFixWrap(hour, mer) ==
    IF mer = "" THEN hour
    ELSE IF mer = "PM" /\ hour < 12 THEN hour + 12
    ELSE IF mer = "AM" /\ hour = 12 THEN 0
    ELSE hour

(* One format tried on one string (non-strict): the moment it gives, and   *)
(* the penalty charsLeftOver + 10 * unusedTokens.length.                   *)
ParseWithFormat(s, fmt) ==
    LET digits == s.hh >= 0
        hour == IF fmt = "hh:mm A" THEN meridiemFixWrap(s.hh, s.mer) ELSE s.hh
        overflow == \/ hour > 24
                    \/ hour = 24 /\ s.mm # 0
                    \/ s.mm > 59
        left == IF ~digits THEN 2
                ELSE IF fmt = "HH:mm" /\ s.mer # "" THEN 3 ELSE 0
        unused == (IF digits THEN 0 ELSE 2)
                  + (IF fmt = "hh:mm A" /\ s.mer = "" THEN 1 ELSE 0)
    IN  [valid |-> digits /\ ~overflow,
         min |-> IF digits /\ ~overflow THEN hour * 60 + s.mm ELSE 0,
         score |-> left + 10 * unused]

Moment(c) == [valid |-> c.valid, min |-> c.min]

(* moment(s, "HH:mm") *)
MomentHHmm(s) == Moment(ParseWithFormat(s, "HH:mm"))

MomentFirstFormat(s) == MomentHHmm(s)

(* moment(s, ["HH:mm", "hh:mm A"]): the valid format of least penalty, the *)
(* first one on a tie.                                                     *)
MomentTwoFormats(s) ==
    LET a == ParseWithFormat(s, "HH:mm")
        b == ParseWithFormat(s, "hh:mm A")
    IN  IF a.valid /\ b.valid
        THEN (IF b.score < a.score THEN Moment(b) ELSE Moment(a))
        ELSE IF a.valid THEN Moment(a)
        ELSE IF b.valid THEN Moment(b)
        ELSE Invalid

AddMinutes(m, d) == IF m.valid THEN [m EXCEPT !.min = m.min + d] ELSE m

isBeforeOrSame(a, b) == a.valid /\ b.valid /\ a.min <= b.min

isBefore(a, b) == a.valid /\ b.valid /\ a.min < b.min

isAfter(a, b) == a.valid /\ b.valid /\ a.min > b.min

Format(m, fmt) ==
    IF ~m.valid THEN InvalidDate
    ELSE IF fmt = "HH:mm" THEN FormatHHmm(m.min)
    ELSE FormathhmmA(m.min)

(* --------------------------- collections ------------------------------- *)

DoctorIds == {"d1", "d2"}
Emails == {"e1", "e2"}
Clients == {"u1", "u2"}
Dates == {"D1", "D2"}
Statuses == {"pending", "approved", "rejected"}

W1 == [fromTime |-> Text(9, 0, ""), toTime |-> Text(17, 0, "")]
W2 == [fromTime |-> Text(0, 0, ""), toTime |-> Text(23, 59, "")]
Windows == {W1, W2}

Doc(u, e, w) ==
    [userId |-> u, email |-> e, fromTime |-> w.fromTime, toTime |-> w.toTime,
     status |-> "pending"]

Appt(i, u, d, dt, t, s) ==
    [id |-> i, userId |-> u, doctorId |-> d, date |-> dt, time |-> t, status |-> s]

(* Doctor.findOne({ userId }): the first document in insertion order *)
FindDoctor(docs, uid) ==
    LET hits == {i \in 1..Len(docs) : docs[i].userId = uid}
    IN  IF hits = {} THEN None
        ELSE docs[CHOOSE i \in hits : \A j \in hits : i <= j]

(* Appointment.find({ doctorId, date, time: {$gte, $lte}, status: {$ne} }) *)
FindAppointments(appts, doctorId, date, gte, lte) ==
    {a \in appts : /\ a.doctorId = doctorId
                   /\ a.date = date
                   /\ StrGte(a.time, gte)
                   /\ StrLte(a.time, lte)
                   /\ a.status # "rejected"}

(* ------------------------------ responses ------------------------------ *)

Response(code, message) ==
    [code |-> code, message |-> message, from |-> None, to |-> None]

DoctorNotFound == Response(404, "Doctor not found")

OutOfWorkingHours(displayFromTime, displayToTime) ==
    [code |-> 400,
     message |-> "Please select a time within doctor's working hours",
     from |-> displayFromTime, to |-> displayToTime]

NotAvailable == Response(400, "Appointment not available")

Available == Response(200, "Appointment available")

Request(d, dt, t) == [doctorId |-> d, date |-> dt, time |-> t]

(* What the client holds after a call: the request, its response, and how  *)
(* many calls in a row it has made with this same request (history).       *)
Held(p, req, resp) ==
    [req |-> req, resp |-> resp,
     n |-> IF last[p] # None /\ last[p].req = req
           THEN (IF last[p].n < MaxRepeat THEN last[p].n + 1 ELSE MaxRepeat)
           ELSE 1]

(* ------------------------ checkBookingAvailability --------------------- *)

(* Lines 115-153, run once Doctor.findOne has given a doctor: the answer   *)
(* for the appointments the query sees.                                    *)
Answer(doctor, req, appts) ==
    LET doctorFromTime == MomentHHmm(doctor.fromTime)
        doctorToTime == MomentHHmm(doctor.toTime)
        requestedTime == MomentTwoFormats(req.time)
        fromTime == AddMinutes(requestedTime, -BufferBefore)
        toTime == AddMinutes(requestedTime, BufferAfter)
        displayFromTime == Format(doctorFromTime, "hh:mm A")
        displayToTime == Format(doctorToTime, "hh:mm A")
    IN  IF isBefore(requestedTime, doctorFromTime)
           \/ isAfter(requestedTime, doctorToTime)
        THEN OutOfWorkingHours(displayFromTime, displayToTime)
        ELSE IF FindAppointments(appts, req.doctorId, req.date,
                                 Format(fromTime, "HH:mm"),
                                 Format(toTime, "HH:mm")) # {}
        THEN NotAvailable
        ELSE Available

(* Lines 109-153 against one state of the two collections. *)
Outcome(docs, appts, req) ==
    LET doctor == FindDoctor(docs, req.doctorId)
    IN  IF doctor = None THEN DoctorNotFound ELSE Answer(doctor, req, appts)

NextId(appts) ==
    IF appts = {} THEN 1
    ELSE 1 + (CHOOSE i \in {a.id : a \in appts} : \A a \in appts : a.id <= i)

(* Lines 109-113: the handler up to its first await and the outcome of     *)
(* Doctor.findOne.                                                         *)
CheckFindDoctor(p, req) ==
    /\ pc[p] = "idle"
    /\ LET doctor == FindDoctor(doctors, req.doctorId)
       IN  IF doctor = None
           THEN /\ last' = [last EXCEPT ![p] = Held(p, req, DoctorNotFound)]
                /\ UNCHANGED <<pc, local>>
           ELSE /\ pc' = [pc EXCEPT ![p] = "checking"]
                /\ local' = [local EXCEPT ![p] = [req |-> req, doctor |-> doctor]]
                /\ last' = [last EXCEPT ![p] =
                              IF last[p] # None /\ last[p].req = req
                              THEN last[p] ELSE None]
    /\ UNCHANGED <<doctors, appointments, users, reply>>

CheckAnswerNotifying(p) ==
    /\ pc[p] = "checking"
    /\ last' = [last EXCEPT ![p] =
                  Held(p, local[p].req,
                       Answer(local[p].doctor, local[p].req, appointments))]
    /\ users' =
         IF Len(users[p].unseenNotifications) < MaxNotifs
         THEN [users EXCEPT ![p].unseenNotifications =
                 Append(@, [type |-> "availability-checked"])]
         ELSE users
    /\ pc' = [pc EXCEPT ![p] = "idle"]
    /\ local' = [local EXCEPT ![p] = None]
    /\ UNCHANGED <<doctors, appointments, reply>>

CheckAnswerReserving(p) ==
    /\ pc[p] = "checking"
    /\ LET resp == Answer(local[p].doctor, local[p].req, appointments)
       IN  /\ last' = [last EXCEPT ![p] = Held(p, local[p].req, resp)]
           /\ appointments' =
                IF resp = Available /\ Cardinality(appointments) < MaxAppts
                THEN appointments \cup
                       {Appt(NextId(appointments), p, local[p].req.doctorId,
                             local[p].req.date, local[p].req.time, "pending")}
                ELSE appointments
    /\ pc' = [pc EXCEPT ![p] = "idle"]
    /\ local' = [local EXCEPT ![p] = None]
    /\ UNCHANGED <<doctors, users, reply>>

(* Lines 115-153: the working-hours test, Appointment.find and the answer. *)
CheckAnswer(p) ==
    /\ pc[p] = "checking"
    /\ last' = [last EXCEPT ![p] =
                  Held(p, local[p].req,
                       Answer(local[p].doctor, local[p].req, appointments))]
    /\ pc' = [pc EXCEPT ![p] = "idle"]
    /\ local' = [local EXCEPT ![p] = None]
    /\ UNCHANGED <<doctors, appointments, users, reply>>

(* ---------------------------- doctorSignup ----------------------------- *)

Notify(us, uid, n) ==
    IF uid \in DOMAIN us
    THEN [us EXCEPT ![uid].unseenNotifications = Append(@, n)]
    ELSE us

AdminOf(us) == {u \in DOMAIN us : us[u].isAdmin}

doctorSignupNoLookup(body) ==
    /\ Len(doctors) < MaxSignups
    /\ doctors' = Append(doctors, [body EXCEPT !.status = "pending"])
    /\ users' = users
    /\ reply' = [op |-> "doctorSignup", email |-> body.email, code |-> 200]
    /\ UNCHANGED <<appointments, pc, local, last>>

doctorSignup(body) ==
    /\ IF \E i \in 1..Len(doctors) : doctors[i].email = body.email
       THEN /\ reply' = [op |-> "doctorSignup", email |-> body.email, code |-> 400]
            /\ UNCHANGED <<doctors, users>>
       ELSE /\ Len(doctors) < MaxSignups
            /\ doctors' = Append(doctors, [body EXCEPT !.status = "pending"])
            /\ users' =
                 IF AdminOf(users) = {} THEN users
                 ELSE Notify(users, CHOOSE u \in AdminOf(users) : TRUE,
                             [type |-> "new-doctor-request",
                              doctorId |-> Len(doctors) + 1])
            /\ reply' = [op |-> "doctorSignup", email |-> body.email, code |-> 200]
    /\ UNCHANGED <<appointments, pc, local, last>>

(* ----------------------- changeAppointmentStatus ----------------------- *)

changeAppointmentStatus(appointmentId, status) ==
    LET hit == {a \in appointments : a.id = appointmentId}
    IN  IF hit = {}
        THEN /\ reply' = [op |-> "changeAppointmentStatus",
                          id |-> appointmentId, code |-> 404]
             /\ UNCHANGED <<doctors, appointments, users, pc, local, last>>
        ELSE LET old == CHOOSE a \in hit : TRUE
             IN  /\ old.userId \in DOMAIN users =>
                       Len(users[old.userId].unseenNotifications) < MaxNotifs
                 /\ appointments' =
                       (appointments \ {old}) \cup {[old EXCEPT !.status = status]}
                 /\ users' = Notify(users, old.userId,
                                    [type |-> "appointment-status-changed",
                                     message |-> status])
                 /\ reply' = [op |-> "changeAppointmentStatus",
                              id |-> appointmentId, code |-> 200]
                 /\ UNCHANGED <<doctors, pc, local, last>>

(* ------------------- the caller's booking write ------------------------ *)

BookAppointment(p) ==
    /\ pc[p] = "idle"
    /\ last[p] # None
    /\ last[p].resp = Available
    /\ Cardinality(appointments) < MaxAppts
    /\ appointments' = appointments \cup
          {Appt(NextId(appointments), p, last[p].req.doctorId,
                last[p].req.date, last[p].req.time, "pending")}
    /\ last' = [last EXCEPT ![p] = None]
    /\ UNCHANGED <<doctors, users, pc, local, reply>>

(* --------------------------- specifications ---------------------------- *)

User(isAdmin) == [isAdmin |-> isAdmin, unseenNotifications |-> <<>>]

UsersWithAdmin == [u \in Clients \cup {"admin"} |-> User(u = "admin")]
UsersNoAdmin == [u \in Clients |-> User(FALSE)]

Idle ==
    /\ pc = [p \in Clients |-> "idle"]
    /\ local = [p \in Clients |-> None]
    /\ last = [p \in Clients |-> None]
    /\ reply = None

DistinctEmails(docs) ==
    \A i, j \in 1..Len(docs) : docs[i].email = docs[j].email => i = j

DoctorPool == {Doc(u, e, w) : u \in DoctorIds, e \in Emails, w \in Windows}

DoctorSeqs(n) ==
    {docs \in UNION {[1..k -> DoctorPool] : k \in 0..n} : DistinctEmails(docs)}

ApptPool ==
    {Appt(1, "u1", "d1", "D1", Text(9, 29, ""), "pending"),
     Appt(2, "u1", "d1", "D1", Text(9, 30, ""), "pending"),
     Appt(3, "u2", "d1", "D1", Text(10, 15, ""), "approved"),
     Appt(4, "u2", "d1", "D1", Text(10, 16, ""), "approved"),
     Appt(5, "u1", "d1", "D1", Text(10, 0, ""), "rejected"),
     Appt(6, "u1", "d1", "D1", Text(0, 10, ""), "pending"),
     Appt(7, "u1", "d2", "D1", Text(10, 0, ""), "pending"),
     Appt(8, "u1", "d1", "D2", Text(10, 0, ""), "pending"),
     Appt(9, "u2", "d1", "D1", Text(8, 30, ""), "approved"),
     Appt(10, "u2", "d1", "D1", Text(14, 30, ""), "pending")}

ApptSets(pool, n) == {as \in SUBSET pool : Cardinality(as) <= n}

ReqMinutes == {10, 539, 540, 600, 870, 1020, 1021}

Malformed == {NoDigits, Text(25, 0, ""), Text(10, 75, "")}

ReqTexts ==
    {FormatHHmm(m) : m \in ReqMinutes} \cup {FormathhmmA(m) : m \in ReqMinutes}
    \cup Malformed \cup {Text(24, 0, "")}

(* checkBookingAvailability called by one client against any stored        *)
(* doctors and appointments.                                               *)
CheckRequests == {Request("d1", "D1", t) : t \in ReqTexts}

InitCheck ==
    /\ doctors \in DoctorSeqs(MaxDocs)
    /\ appointments \in ApptSets(ApptPool, MaxAppts)
    /\ users = UsersWithAdmin
    /\ Idle

NextCheck ==
    \/ \E req \in CheckRequests : CheckFindDoctor("u1", req)
    \/ CheckAnswer("u1")

SpecCheck == InitCheck /\ [][NextCheck]_vars

(* doctorSignup calls, one at a time, on an empty Doctor collection.       *)
SignupBodies == DoctorPool

InitSignup ==
    /\ doctors = <<>>
    /\ appointments = {}
    /\ users \in {UsersWithAdmin, UsersNoAdmin}
    /\ Idle

NextSignup == \E body \in SignupBodies : doctorSignup(body)

SpecSignup == InitSignup /\ [][NextSignup]_vars

(* Two clients that check and then book with one registered doctor.        *)
BookingRequests ==
    {Request("d1", "D1", t) : t \in {Text(10, 0, ""), Text(10, 10, ""), Text(11, 0, "")}}

Init ==
    /\ doctors = <<Doc("d1", "e1", W2)>>
    /\ appointments = {}
    /\ users = UsersWithAdmin
    /\ Idle

Next ==
    \E p \in Clients :
        \/ \E req \in BookingRequests : CheckFindDoctor(p, req)
        \/ CheckAnswer(p)
        \/ BookAppointment(p)

Spec == Init /\ [][Next]_vars

(* changeAppointmentStatus on stored appointments, and a client checking.  *)
StatusPool ==
    {Appt(1, "u1", "d1", "D1", Text(10, 0, ""), "pending"),
     Appt(2, "u1", "d1", "D1", Text(0, 10, ""), "pending"),
     Appt(3, "u2", "d1", "D1", Text(12, 0, ""), "approved")}

StatusRequests ==
    {Request("d1", "D1", t) : t \in {Text(10, 0, ""), Text(0, 10, "")}}

InitStatus ==
    /\ doctors = <<Doc("d1", "e1", W2)>>
    /\ appointments \in ApptSets(StatusPool, MaxAppts) \ {{}}
    /\ users = UsersWithAdmin
    /\ Idle

NextStatus ==
    \/ \E id \in 1..4, status \in Statuses : changeAppointmentStatus(id, status)
    \/ \E req \in StatusRequests : CheckFindDoctor("u2", req)
    \/ CheckAnswer("u2")

SpecStatus == InitStatus /\ [][NextStatus]_vars

(* ------------------------------- claims -------------------------------- *)

(* A well-formed request time: "HH:mm" of a time of day, or "hh:mm A".     *)
WellFormed(t) ==
    /\ t.mm \in 0..59
    /\ \/ t.mer = "" /\ t.hh \in 0..23
       \/ t.mer \in {"AM", "PM"} /\ t.hh \in 1..12

(* The time of day a well-formed text names, in minutes after midnight.    *)
ClockMinutes(t) ==
    IF t.mer = "" THEN t.hh * 60 + t.mm
    ELSE ((t.hh % 12) + (IF t.mer = "PM" THEN 12 ELSE 0)) * 60 + t.mm

(* The same time of day written in the other accepted form.                *)
OtherForm(t) ==
    IF t.mer = "" THEN FormathhmmA(ClockMinutes(t)) ELSE FormatHHmm(ClockMinutes(t))

OutOfHoursMessage == "Please select a time within doctor's working hours"

(* Appointment a is one of request req's doctor and date, not rejected,    *)
(* at a time of day t with r - 30min <= t <= r + 15min.                    *)
Blocks(a, req) ==
    /\ a.doctorId = req.doctorId
    /\ a.date = req.date
    /\ a.status # "rejected"
    /\ ClockMinutes(req.time) - BufferBefore <= ClockMinutes(a.time)
    /\ ClockMinutes(a.time) <= ClockMinutes(req.time) + BufferAfter

(* The client of SpecCheck holds the answer to a well-formed request for a *)
(* doctor that exists.                                                     *)
Answered ==
    /\ last["u1"] # None
    /\ WellFormed(last["u1"].req.time)
    /\ FindDoctor(doctors, last["u1"].req.doctorId) # None

PassedHours == Answered /\ last["u1"].resp.message # OutOfHoursMessage

(* C1: with working window [f,t] and requested time r, the request is      *)
(* rejected as out of working hours (400) exactly when r < f or r > t; at  *)
(* r = f and at r = t it is not.                                           *)
C1_WorkingHours ==
    Answered =>
        LET doctor == FindDoctor(doctors, last["u1"].req.doctorId)
            f == ClockMinutes(doctor.fromTime)
            t == ClockMinutes(doctor.toTime)
            r == ClockMinutes(last["u1"].req.time)
        IN  (/\ last["u1"].resp.code = 400
             /\ last["u1"].resp.message = OutOfHoursMessage)
            <=> (r < f \/ r > t)

C1_Witness ==
    /\ Answered
    /\ FindDoctor(doctors, last["u1"].req.doctorId).toTime = Text(17, 0, "")
    /\ last["u1"].req.time = Text(5, 0, "PM")
    /\ last["u1"].resp = Available

(* C2 as stated: a request that passes the working-hours check is answered *)
(* 'Appointment not available' exactly when some non-rejected appointment  *)
(* of the doctor and date lies in [r - 30min, r + 15min].                  *)
C2_ConflictWindow ==
    PassedHours =>
        (last["u1"].resp = NotAvailable
         <=> \E a \in appointments : Blocks(a, last["u1"].req))

(* C3 as stated: a request time that parses under neither format is never *)
(* answered 'Appointment available'.                                       *)
C3_MalformedIsError ==
    (last["u1"] # None /\ last["u1"].req.time \in Malformed)
        => last["u1"].resp # Available

(* C4 as stated: with only rejected appointments for the doctor and date   *)
(* the answer is never 'Appointment not available', and a pending or       *)
(* approved one in the conflict window always gives that answer.           *)
C4_RejectedIgnored ==
    PassedHours =>
        LET req == last["u1"].req
            same == {a \in appointments : a.doctorId = req.doctorId /\ a.date = req.date}
        IN  /\ (\A a \in same : a.status = "rejected")
                => last["u1"].resp # NotAvailable
            /\ (\E a \in same : a.status \in {"pending", "approved"} /\ Blocks(a, req))
                => last["u1"].resp = NotAvailable

(* C5: a time of day given as "hh:mm A" and given as "HH:mm" gets the same *)
(* answer against the same doctors and appointments.                       *)
C5_FormatEquivalence ==
    (last["u1"] # None /\ WellFormed(last["u1"].req.time)) =>
        last["u1"].resp =
            Outcome(doctors, appointments,
                    [last["u1"].req EXCEPT !.time = OtherForm(@)])

C5_Witness ==
    /\ last["u1"] # None
    /\ last["u1"].req.time = Text(2, 30, "PM")
    /\ last["u1"].resp = NotAvailable

(* C6: a step of checkBookingAvailability changes no doctor, appointment   *)
(* or user, and a call repeated with the same request gets the same answer.*)
C6_ReadOnly ==
    [][/\ UNCHANGED <<doctors, appointments, users>>
       /\ \A p \in Clients :
            (last[p] # None /\ last'[p] # None /\ last'[p].req = last[p].req)
                => last'[p].resp = last[p].resp]_vars

C6_Witness ==
    /\ last["u1"] # None
    /\ last["u1"].n = 2
    /\ last["u1"].resp = Available

(* C7: the check reserves nothing: a client holding 'Appointment           *)
(* available' has no appointment stored for the slot it asked about.  So   *)
(* two clients can both hold it and then both write (the witness).         *)
C7_NoReservation ==
    \A p \in Clients :
        (last[p] # None /\ last[p].resp = Available) =>
            ~ \E a \in appointments :
                /\ a.userId = p
                /\ a.doctorId = last[p].req.doctorId
                /\ a.date = last[p].req.date
                /\ a.time = last[p].req.time

C7_Witness ==
    \E a, b \in appointments :
        /\ a.id # b.id
        /\ a.userId # b.userId
        /\ Blocks(a, Request(b.doctorId, b.date, b.time))
        /\ Blocks(b, Request(a.doctorId, a.date, a.time))

(* C8 as stated: the answer is 'Doctor not found' when no doctor has the   *)
(* doctorId, else out of working hours when the time is outside the        *)
(* window, else 'Appointment not available' when a conflicting appointment *)
(* exists, else 'Appointment available'.                                   *)
C8_OutcomeOrder ==
    (last["u1"] # None /\ WellFormed(last["u1"].req.time)) =>
        LET req == last["u1"].req
            doctor == FindDoctor(doctors, req.doctorId)
            r == ClockMinutes(req.time)
        IN  last["u1"].resp.message =
              IF \A i \in 1..Len(doctors) : doctors[i].userId # req.doctorId
              THEN "Doctor not found"
              ELSE IF r < ClockMinutes(doctor.fromTime)
                      \/ r > ClockMinutes(doctor.toTime)
              THEN OutOfHoursMessage
              ELSE IF \E a \in appointments : Blocks(a, req)
              THEN "Appointment not available"
              ELSE "Appointment available"

(* C9 as stated: when changeAppointmentStatus has last set the status of   *)
(* the only appointment in a request's conflict window, the check that     *)
(* then answers says 'Appointment available' if that status is 'rejected'  *)
(* and 'Appointment not available' otherwise.                              *)
C9_StatusDecides ==
    [][\A p \in Clients :
         (pc[p] = "checking" /\ pc'[p] = "idle") =>
            LET req == local[p].req
                inWindow == {a \in appointments :
                               /\ a.doctorId = req.doctorId
                               /\ a.date = req.date
                               /\ Blocks([a EXCEPT !.status = "pending"], req)}
            IN  \A a \in inWindow :
                  (/\ inWindow = {a}
                   /\ reply = [op |-> "changeAppointmentStatus",
                               id |-> a.id, code |-> 200])
                  => last'[p].resp =
                       IF a.status = "rejected" THEN Available ELSE NotAvailable]_vars

(* C10: a doctorSignup with the email of a stored doctor answers 400 and   *)
(* changes neither the doctors nor any user's notifications, and no two    *)
(* doctors share an email.                                                 *)
C10_SignupUniqueEmail ==
    [][/\ (/\ reply' # None
           /\ reply'.op = "doctorSignup"
           /\ \E i \in 1..Len(doctors) : doctors[i].email = reply'.email)
          => (reply'.code = 400 /\ doctors' = doctors /\ users' = users)
       /\ DistinctEmails(doctors')]_vars

C10_Witness ==
    /\ reply # None
    /\ reply.op = "doctorSignup"
    /\ reply.code = 400
    /\ Len(doctors) = 2

=============================================================================
